---- MODULE Spec2Model ----
(***************************************************************************)
(* The reverse tunnel of ownserver: the server-side registry (Store), the  *)
(* per-client outbound pump (ConnectedClient::build), the port allocator   *)
(* behind Store::allocate_port / release_port, and the public listener and *)
(* control session that drive them.                                        *)
(*                                                                         *)
(* The specifications share the variables:                                 *)
(*   SpecTunnel       one control session: connections are accepted and    *)
(*                    their traffic is forwarded to the client until the   *)
(*                    session ends                                         *)
(*   SpecDuplex       the same session with its streams open, traffic both *)
(*                    ways                                                 *)
(*   SpecPort         sessions allocating and releasing public ports       *)
(*   SpecStore        concurrent registry operations and the sweep         *)
(*   SpecRegistry     the registry of one session: accept, disable, sweep  *)
(*                    and lookup by address                                *)
(*   SpecSend         the same registry while tasks send by id             *)
(*   SpecRefused      open streams the tunnel client refuses               *)
(*   SpecClose        the session's termination, run to its end            *)
(*   SpecConnections  the Connections registry of the proxy server         *)
(*   SpecHosts        the same registry with clients that share a host     *)
(*   SpecInterleave   add and remove calls interleaved map operation by    *)
(*                    map operation                                        *)
(*   SpecBackpressure sends to streams whose bounded channels fill up,     *)
(*                    under the lock of the stream registry                *)
(***************************************************************************)
EXTENDS Integers, Sequences, FiniteSets, TLC

\* ------------------------------------------------------------------ bounds
MaxPeers == 2
MaxEvents == 2
MaxClients == 2
MaxSessions == 2
MaxPorts == 2

\* Messages that may wait in the registry's channels when tasks send by id.
MaxSends == 1

\* The largest chunk one Data packet carries (the configurable chunk size).
ChunkSize == 1

Peers == 1..MaxPeers
\* One id more than there are connections: the last is never registered.
StreamIds == 1..(MaxPeers + 1)
ClientIds == 1..MaxClients
Sessions == 1..MaxSessions
Ports == 1..MaxPorts
\* Addresses external peers connect from: one for each peer.
Addrs == 1..MaxPeers

\* Tasks that may be inside a call on a registry at the same time.
MaxCalls == 2
ConnTasks == 1..MaxCalls
SendTasks == 1..MaxCalls

\* The capacity of a stream's inbound channel.
ChanCap == 1

\* No send in flight.
NoSend == [stream_id |-> 0, message |-> [kind |-> "none", data |-> <<>>], pc |-> "idle"]

\* No call in flight.
NoCall == [op |-> "none", client |-> [id |-> 0, host |-> 0], pc |-> "idle"]

EmptyMap == [x \in {} |-> 0]

Min(a, b) == IF a < b THEN a ELSE b

RECURSIVE Concat(_)
Concat(ss) == IF ss = <<>> THEN <<>> ELSE Head(ss) \o Concat(Tail(ss))

IsPrefix(a, b) == Len(a) <= Len(b) /\ SubSeq(b, 1, Len(a)) = a

Range(f) == {f[x] : x \in DOMAIN f}

\* ------------------------------------------------------- ControlPacket
InitP(sid) == [type |-> "Init", sid |-> sid, data |-> <<>>]
Data(sid, bytes) == [type |-> "Data", sid |-> sid, data |-> bytes]
End(sid) == [type |-> "End", sid |-> sid, data |-> <<>>]
Refused(sid) == [type |-> "Refused", sid |-> sid, data |-> <<>>]

TagOf(type) ==
    CASE type = "Init" -> 0
      [] type = "Data" -> 1
      [] type = "Refused" -> 2
      [] type = "End" -> 3

TypeOf(tag) ==
    CASE tag = 0 -> "Init"
      [] tag = 1 -> "Data"
      [] tag = 2 -> "Refused"
      [] tag = 3 -> "End"

\* rmp_serde::to_vec(&packet): the variant tag, the stream id, the payload.
to_vec(packet) == <<TagOf(packet.type), packet.sid>> \o packet.data

\* ControlPacket::deserialize / rmp_serde::from_slice.
from_slice(msg) ==
    [type |-> TypeOf(msg[1]), sid |-> msg[2], data |-> SubSeq(msg, 3, Len(msg))]

\* StreamMessage: what Store::send_to_remote hands to a stream's writer.
Bytes(b) == [kind |-> "Data", data |-> b]
Close == [kind |-> "Close", data |-> <<>>]

\* The k-th byte an external peer writes, and the k-th byte the tunnel
\* client sends on a stream: all distinct, so that a lost, repeated,
\* reordered or misrouted byte shows.
PeerByte(p, k) == 10 * p + k
ClientByte(s, k) == 100 + 10 * s + k

VARIABLES
    \* Store (ownserver_server/src/store.rs)
    streams,        \* StreamId -> [client_id, disabled]
    clients,        \* ClientId -> [remote_port, disabled]
    addrs_map,      \* peer address -> StreamId
    port_map,       \* public port -> ClientId
    minted,         \* StreamIds handed out by StreamId::new so far
    \* external peers and the public listener's tasks
    peerPc,         \* peer -> "idle" | "connected" | "inserted" | "indexed" | "open" | "dead"
    peerSid,        \* peer -> its StreamId (0 before accept)
    peerAddr,       \* peer -> the address it connects from (0 before connect)
    peerWritten,    \* peer -> bytes the peer wrote to its socket
    peerClosed,     \* peer -> the peer shut down its write side
    readPos,        \* peer -> bytes the reader task has taken from the socket
    readerPc,       \* peer -> "run" | "done"
    peerRead,       \* peer -> bytes the writer task wrote to the peer's socket
    remoteQ,        \* StreamId -> the stream's inbound channel
    writerPc,       \* StreamId -> "run" | "done"
    \* ConnectedClient (proxy_server/src/connected_clients.rs)
    txq,            \* the unbounded channel tx -> rx
    enq,            \* every packet send_to_client accepted, in order
    chanClosed,     \* close_channel was called
    pumpPc,         \* "run" | "ended" (rx gave None) | "aborted" (write error)
    wsAlive,        \* the websocket accepts writes
    wsOut,          \* binary messages written to the websocket
    wsEnded,        \* the websocket sink was dropped
    \* control channel, client to server
    wsIn,           \* binary messages the tunnel client sent
    inPos,          \* messages the inbound pump has handled
    \* tasks working on the Store
    clientPc,       \* ClientId -> "new" | "inserted" | "active" (add_client)
    sweepPc,        \* "idle" | "streams_swept" (cleanup)
    findPc,         \* "idle" | "looked_up" (find_stream_id_by_addr)
    findAddr,       \* the address the lookup in flight was called with
    findSid,        \* the StreamId the lookup read from addrs_map
    findRes,        \* what the last lookup returned (0: None)
    \* PortAllocator behind Store.alloc, and the sessions using it
    free,           \* the allocator's free set
    allocLock,      \* sessions inside the mutex
    sessPc,         \* session -> "idle" | "alloc_locked" | "alloc_picked" | "release_locked"
    sessArg,        \* session -> the port picked, returned or to be released
    sessRes,        \* session -> result of its last call
    leased,         \* port -> allocations handed out and not released since
    \* gauges: the last value published under each name
    gaugeClients,   \* ownserver_server.store.clients
    gaugeStreams,   \* ownserver_server.store.streams
    gaugeConnections, \* magic_tunnel_server.control.connections
    \* calls made on the Store from outside, and the end of the session
    lastSend,       \* the last send_to_remote / send_to_client: [op, id, result]
    termPc,         \* termination of the session: "run" | "disabled" |
                    \*   "release_locked" | "released" | "streams_swept" | "done"
    termRes,        \* what release_port answered to the termination
    streamsLock,    \* tasks holding the write lock of Store.streams
    sendCalls,      \* task -> its send_to_remote in flight: [stream_id, message, pc]
    \* Connections (proxy_server/src/connected_clients.rs)
    connClients,    \* ClientId -> ConnectedClient [id, host]
    connHosts,      \* host -> ConnectedClient [id, host]
    connClosed,     \* ClientIds whose channel close_channel was called on
    connStuck,      \* ClientIds on which a remove_by_id never returned
    connCalls       \* task -> its call on the Connections in flight: [op, client, pc]

storeVars == <<streams, clients, addrs_map, port_map, minted>>
peerVars == <<peerPc, peerSid, peerAddr, peerWritten, peerClosed, readPos, readerPc>>
remoteVars == <<peerRead, remoteQ, writerPc>>
chanVars == <<txq, enq, chanClosed, pumpPc, wsAlive, wsOut, wsEnded>>
inVars == <<wsIn, inPos>>

regVars == <<clientPc, sweepPc, findPc, findAddr, findSid, findRes>>
portVars == <<free, allocLock, sessPc, sessArg, sessRes, leased>>

gaugeVars == <<gaugeClients, gaugeStreams, gaugeConnections>>
callVars == <<lastSend, termPc, termRes, streamsLock, sendCalls>>
connVars == <<connClients, connHosts, connClosed, connStuck, connCalls>>

vars == <<storeVars, peerVars, remoteVars, chanVars, inVars, regVars, portVars,
          gaugeVars, callVars, connVars>>

RECURSIVE Sum(_, _)
Sum(f, S) == IF S = {} THEN 0
             ELSE LET x == CHOOSE y \in S : TRUE IN f[x] + Sum(f, S \ {x})

\* What the environment has done so far: bytes written by peers, peers that
\* closed, packets sent by the tunnel client, the websocket going away and
\* the session closing its channel.
Events ==
    Len(wsIn) + Sum([p \in Peers |-> Len(peerWritten[p])], Peers)
    + Cardinality({p \in Peers : peerClosed[p]})
    + (IF wsAlive THEN 0 ELSE 1) + (IF chanClosed THEN 1 ELSE 0)

\* --------------------------------------------------------------- Store
MapPut(m, k, v) == [x \in DOMAIN m \cup {k} |-> IF x = k THEN v ELSE m[x]]
MapRemove(m, gone) == [x \in DOMAIN m \ gone |-> m[x]]

\* StreamId::new(): an id never handed out before.
StreamId_new == CHOOSE s \in StreamIds \ minted : \A t \in StreamIds \ minted : s <= t

\* RemoteStream::send_to_remote: enqueue on the stream's inbound channel
\* unless the stream is disabled.
RemoteStream_send_to_remote(stream_id, message) ==
    IF streams[stream_id].disabled
    THEN [result |-> "StreamDisabled", remoteQ |-> remoteQ]
    ELSE [result |-> "Ok",
          remoteQ |-> [remoteQ EXCEPT ![stream_id] = Append(@, message)]]

\* A lookup that ignores the key and takes whichever stream comes first.
Store_send_to_remote_first(stream_id, message) ==
    IF DOMAIN streams # {}
    THEN RemoteStream_send_to_remote(CHOOSE s \in DOMAIN streams : TRUE, message)
    ELSE [result |-> "StreamNotAvailable", remoteQ |-> remoteQ]

\* Store::send_to_remote
Store_send_to_remote(stream_id, message) ==
    IF stream_id \in DOMAIN streams
    THEN RemoteStream_send_to_remote(stream_id, message)
    ELSE [result |-> "StreamNotAvailable", remoteQ |-> remoteQ]

\* A disable that flips the mark.
disable_entry_flip(m, id) ==
    IF id \in DOMAIN m THEN [m EXCEPT ![id].disabled = ~@] ELSE m

\* if let Some(entry) = map.get_mut(&id) { entry.disable() }
disable_entry(m, id) ==
    IF id \in DOMAIN m THEN [m EXCEPT ![id].disabled = TRUE] ELSE m

\* Store::disable_remote
Store_disable_remote(stream_id) == disable_entry(streams, stream_id)

\* ------------------------------------------------------ ConnectedClient
\* A channel that keeps accepting after its receiver was dropped.
SendOk_receiver_kept == ~chanClosed

\* UnboundedSender::send succeeds while the channel is open and the
\* receiver is alive.
SendOk == ~chanClosed /\ pumpPc = "run"

\* A sender that puts the packet at the head of the channel.
send_to_client_front(packet) ==
    IF SendOk
    THEN txq' = <<packet>> \o txq /\ enq' = Append(enq, packet)
    ELSE UNCHANGED <<txq, enq>>

\* ConnectedClient::send_to_client
send_to_client(packet) ==
    IF SendOk
    THEN txq' = Append(txq, packet) /\ enq' = Append(enq, packet)
    ELSE UNCHANGED <<txq, enq>>

\* ConnectedClient::close_channel
close_channel ==
    /\ ~chanClosed
    /\ Events < MaxEvents
    /\ chanClosed' = TRUE
    /\ UNCHANGED <<txq, enq, pumpPc, wsAlive, wsOut, wsEnded>>
    /\ UNCHANGED <<storeVars, peerVars, remoteVars, inVars>>
    /\ UNCHANGED <<regVars, portVars, gaugeVars, callVars, connVars>>

\* A receiver that hands out the newest packet first.
rx_next_newest(q) == [packet |-> q[Len(q)], rest |-> SubSeq(q, 1, Len(q) - 1)]

\* rx.next(): the oldest packet of the channel.
rx_next(q) == [packet |-> Head(q), rest |-> Tail(q)]

\* A receiver that reports the end as soon as the channel is closed.
rx_ended_on_close(q) == chanClosed

\* rx.next() gives None once the channel is closed and drained.
rx_ended(q) == chanClosed /\ q = <<>>

\* A sink that accepts the message and never puts it on the wire.
ws_send_unflushed(out, msg) == out

\* websocket_tx.send(Message::binary(data)): one binary message.
ws_send(out, msg) == Append(out, msg)

\* The forwarding task of ConnectedClient::build, Some(packet) with the
\* websocket accepting the write.
PumpForward ==
    /\ pumpPc = "run"
    /\ txq # <<>>
    /\ wsAlive
    /\ LET n == rx_next(txq) IN
        /\ txq' = n.rest
        /\ wsOut' = ws_send(wsOut, to_vec(n.packet))
    /\ UNCHANGED <<enq, chanClosed, pumpPc, wsAlive, wsEnded>>
    /\ UNCHANGED <<storeVars, peerVars, remoteVars, inVars>>
    /\ UNCHANGED <<regVars, portVars, gaugeVars, callVars, connVars>>

\* Some(packet) with the write failing: the task breaks out of the loop,
\* dropping rx (and what it still holds) and the sink.
PumpAbort ==
    /\ pumpPc = "run"
    /\ txq # <<>>
    /\ ~wsAlive
    /\ pumpPc' = "aborted"
    /\ txq' = <<>>
    /\ wsEnded' = TRUE
    /\ UNCHANGED <<enq, chanClosed, wsAlive, wsOut>>
    /\ UNCHANGED <<storeVars, peerVars, remoteVars, inVars>>
    /\ UNCHANGED <<regVars, portVars, gaugeVars, callVars, connVars>>

\* None: the task ends and drops the sink.
PumpEnd ==
    /\ pumpPc = "run"
    /\ rx_ended(txq)
    /\ pumpPc' = "ended"
    /\ txq' = <<>>
    /\ wsEnded' = TRUE
    /\ UNCHANGED <<enq, chanClosed, wsAlive, wsOut>>
    /\ UNCHANGED <<storeVars, peerVars, remoteVars, inVars>>
    /\ UNCHANGED <<regVars, portVars, gaugeVars, callVars, connVars>>

\* The tunnel client goes away: the websocket stops accepting writes.
WsDisconnect ==
    /\ wsAlive
    /\ Events < MaxEvents
    /\ wsAlive' = FALSE
    /\ UNCHANGED <<txq, enq, chanClosed, pumpPc, wsOut, wsEnded>>
    /\ UNCHANGED <<storeVars, peerVars, remoteVars, inVars>>
    /\ UNCHANGED <<regVars, portVars, gaugeVars, callVars, connVars>>

\* ------------------------------------------------ peers and the listener
\* An address can carry a new connection once every stream registered for
\* it before is disabled or swept: a TCP source address is free again when
\* its connection is gone, and the datagram listener opens a stream for a
\* source only when the lookup by address finds none.
AddrFree(addr) ==
    \A q \in Peers : peerAddr[q] = addr =>
        /\ peerPc[q] \notin {"connected", "inserted"}
        /\ peerSid[q] \in DOMAIN streams => streams[peerSid[q]].disabled

\* An external peer opens a connection to the public port from address
\* addr (peers are numbered in the order they connect).
PeerConnect(p, addr) ==
    /\ peerPc[p] = "idle"
    /\ \A q \in Peers : q < p => peerPc[q] # "idle"
    /\ AddrFree(addr)
    /\ peerPc' = [peerPc EXCEPT ![p] = "connected"]
    /\ peerAddr' = [peerAddr EXCEPT ![p] = addr]
    /\ UNCHANGED <<peerSid, peerWritten, peerClosed, readPos, readerPc>>
    /\ UNCHANGED <<storeVars, remoteVars, chanVars, inVars>>
    /\ UNCHANGED <<regVars, portVars, gaugeVars, callVars, connVars>>

\* The peer writes its next byte (the kernel buffers it until it is read).
PeerWrite(p) ==
    /\ peerPc[p] # "idle"
    /\ ~peerClosed[p]
    /\ Events < MaxEvents
    /\ peerWritten' = [peerWritten EXCEPT
                         ![p] = Append(@, PeerByte(p, Len(@) + 1))]
    /\ UNCHANGED <<peerPc, peerSid, peerAddr, peerClosed, readPos, readerPc>>
    /\ UNCHANGED <<storeVars, remoteVars, chanVars, inVars>>
    /\ UNCHANGED <<regVars, portVars, gaugeVars, callVars, connVars>>

\* The peer shuts down its write side.
PeerClose(p) ==
    /\ peerPc[p] # "idle"
    /\ ~peerClosed[p]
    /\ Events < MaxEvents
    /\ peerClosed' = [peerClosed EXCEPT ![p] = TRUE]
    /\ UNCHANGED <<peerPc, peerSid, peerAddr, peerWritten, readPos, readerPc>>
    /\ UNCHANGED <<storeVars, remoteVars, chanVars, inVars>>
    /\ UNCHANGED <<regVars, portVars, gaugeVars, callVars, connVars>>

\* The clients whose public listener is accepting: registered by a
\* completed add_client and not disabled.
Listening == {c \in DOMAIN clients : clientPc[c] = "active" /\ ~clients[c].disabled}

\* Store::add_remote, first statement: the listener of client c accepted
\* the connection and minted its StreamId; the stream enters `streams`.
add_remote_streams(p, c, sid) ==
    /\ peerPc[p] = "connected"
    /\ c \in Listening
    /\ StreamIds \ minted # {}
    /\ sid = StreamId_new
    /\ minted' = minted \cup {sid}
    /\ streams' = MapPut(streams, sid, [client_id |-> c, disabled |-> FALSE])
    /\ peerSid' = [peerSid EXCEPT ![p] = sid]
    /\ peerPc' = [peerPc EXCEPT ![p] = "inserted"]
    /\ UNCHANGED <<clients, addrs_map, port_map>>
    /\ UNCHANGED <<peerAddr, peerWritten, peerClosed, readPos, readerPc>>

\* Store::add_remote, second statement: the peer address enters addrs_map.
add_remote_addrs(p) ==
    /\ peerPc[p] = "inserted"
    /\ addrs_map' = MapPut(addrs_map, peerAddr[p], peerSid[p])
    /\ peerPc' = [peerPc EXCEPT ![p] = "indexed"]
    /\ UNCHANGED <<streams, clients, port_map, minted>>
    /\ UNCHANGED <<peerSid, peerAddr, peerWritten, peerClosed, readPos, readerPc>>

AcceptInsert(p) ==
    /\ \E c \in ClientIds, sid \in StreamIds : add_remote_streams(p, c, sid)
    /\ UNCHANGED <<remoteVars, chanVars, inVars>>
    /\ UNCHANGED <<regVars, portVars, gaugeVars, callVars, connVars>>

\* The rest of Store::add_remote: the address is indexed, then the number
\* of registered streams is read and published (taken as one step: the
\* value published is the one a reader sees right after the insert).
AcceptIndex(p) ==
    /\ add_remote_addrs(p)
    /\ gaugeStreams' = Cardinality(DOMAIN streams)
    /\ UNCHANGED <<gaugeClients, gaugeConnections>>
    /\ UNCHANGED <<remoteVars, chanVars, inVars>>
    /\ UNCHANGED <<regVars, portVars, callVars, connVars>>

\* The listener tells the client about the stream, then starts the
\* stream's reader and writer tasks; a failed send gives the stream up.
AcceptInit(p) ==
    /\ peerPc[p] = "indexed"
    /\ send_to_client(InitP(peerSid[p]))
    /\ peerPc' = [peerPc EXCEPT ![p] = IF SendOk THEN "open" ELSE "dead"]
    /\ UNCHANGED <<peerSid, peerAddr, peerWritten, peerClosed, readPos, readerPc>>
    /\ UNCHANGED <<chanClosed, pumpPc, wsAlive, wsOut, wsEnded>>
    /\ UNCHANGED <<storeVars, remoteVars, inVars>>
    /\ UNCHANGED <<regVars, portVars, gaugeVars, callVars, connVars>>

Unread(p) == SubSeq(peerWritten[p], readPos[p] + 1, Len(peerWritten[p]))

\* The reader task: one read of at most ChunkSize bytes becomes one Data
\* packet; a failed send ends the task.
ReaderData(p) ==
    /\ peerPc[p] = "open"
    /\ readerPc[p] = "run"
    /\ Unread(p) # <<>>
    /\ \E n \in 1..Min(ChunkSize, Len(Unread(p))) :
        /\ send_to_client(Data(peerSid[p], SubSeq(Unread(p), 1, n)))
        /\ readPos' = [readPos EXCEPT ![p] = @ + n]
    /\ readerPc' = [readerPc EXCEPT ![p] = IF SendOk THEN "run" ELSE "done"]
    /\ UNCHANGED <<peerPc, peerSid, peerAddr, peerWritten, peerClosed>>
    /\ UNCHANGED <<chanClosed, pumpPc, wsAlive, wsOut, wsEnded>>
    /\ UNCHANGED <<storeVars, remoteVars, inVars>>
    /\ UNCHANGED <<regVars, portVars, gaugeVars, callVars, connVars>>

\* The reader task at end of file: End, and the task is over.
ReaderEof(p) ==
    /\ peerPc[p] = "open"
    /\ readerPc[p] = "run"
    /\ Unread(p) = <<>>
    /\ peerClosed[p]
    /\ send_to_client(End(peerSid[p]))
    /\ readerPc' = [readerPc EXCEPT ![p] = "done"]
    /\ UNCHANGED <<peerPc, peerSid, peerAddr, peerWritten, peerClosed, readPos>>
    /\ UNCHANGED <<chanClosed, pumpPc, wsAlive, wsOut, wsEnded>>
    /\ UNCHANGED <<storeVars, remoteVars, inVars>>
    /\ UNCHANGED <<regVars, portVars, gaugeVars, callVars, connVars>>

\* The peer whose connection carries stream s.
PeerOf(s) == CHOOSE p \in Peers : peerSid[p] = s

\* The writer task: each chunk of the inbound channel is written in full
\* before the next is taken; Close ends the task.
Writer(s) ==
    /\ s \in minted
    /\ writerPc[s] = "run"
    /\ peerPc[PeerOf(s)] = "open"
    /\ remoteQ[s] # <<>>
    /\ remoteQ' = [remoteQ EXCEPT ![s] = Tail(@)]
    /\ IF Head(remoteQ[s]).kind = "Close"
       THEN /\ writerPc' = [writerPc EXCEPT ![s] = "done"]
            /\ UNCHANGED peerRead
       ELSE /\ peerRead' = [peerRead EXCEPT
                              ![PeerOf(s)] = @ \o Head(remoteQ[s]).data]
            /\ UNCHANGED writerPc
    /\ UNCHANGED <<storeVars, peerVars, chanVars, inVars>>
    /\ UNCHANGED <<regVars, portVars, gaugeVars, callVars, connVars>>

\* --------------------------------------- control channel, client to server
\* What the tunnel client has sent as Data for stream s so far.
ClientData(s) ==
    Concat([i \in 1..Len(wsIn) |->
              IF from_slice(wsIn[i]).type = "Data" /\ from_slice(wsIn[i]).sid = s
              THEN from_slice(wsIn[i]).data ELSE <<>>])

\* The tunnel client writes one packet to its end of the websocket: the
\* next bytes of a stream, ...
ClientSendData(s) ==
    /\ Events < MaxEvents
    /\ \E n \in 1..ChunkSize :
         wsIn' = Append(wsIn, to_vec(Data(s,
                    [k \in 1..n |-> ClientByte(s, Len(ClientData(s)) + k)])))
    /\ UNCHANGED inPos
    /\ UNCHANGED <<storeVars, peerVars, remoteVars, chanVars>>
    /\ UNCHANGED <<regVars, portVars, gaugeVars, callVars, connVars>>

\* ... the end of a stream, ...
ClientSendEnd(s) ==
    /\ Events < MaxEvents
    /\ wsIn' = Append(wsIn, to_vec(End(s)))
    /\ UNCHANGED inPos
    /\ UNCHANGED <<storeVars, peerVars, remoteVars, chanVars>>
    /\ UNCHANGED <<regVars, portVars, gaugeVars, callVars, connVars>>

\* ... or the refusal of a stream.
ClientSendRefused(s) ==
    /\ Events < MaxEvents
    /\ wsIn' = Append(wsIn, to_vec(Refused(s)))
    /\ UNCHANGED inPos
    /\ UNCHANGED <<storeVars, peerVars, remoteVars, chanVars>>
    /\ UNCHANGED <<regVars, portVars, gaugeVars, callVars, connVars>>

\* The inbound pump of the control session handles the next message.
Inbound ==
    /\ inPos < Len(wsIn)
    /\ inPos' = inPos + 1
    /\ UNCHANGED wsIn
    /\ LET packet == from_slice(wsIn[inPos + 1]) IN
        CASE packet.type = "Data" ->
                LET r == Store_send_to_remote(packet.sid, Bytes(packet.data)) IN
                /\ remoteQ' = r.remoteQ
                /\ IF r.result = "StreamNotAvailable"
                   THEN send_to_client(End(packet.sid))
                   ELSE UNCHANGED <<txq, enq>>
                /\ UNCHANGED streams
          [] packet.type = "End" ->
                /\ remoteQ' = Store_send_to_remote(packet.sid, Close).remoteQ
                /\ UNCHANGED <<txq, enq, streams>>
          [] packet.type = "Refused" ->
                /\ streams' = Store_disable_remote(packet.sid)
                /\ UNCHANGED <<txq, enq, remoteQ>>
          [] OTHER -> UNCHANGED <<txq, enq, remoteQ, streams>>
    /\ UNCHANGED <<clients, addrs_map, port_map, minted>>
    /\ UNCHANGED <<peerRead, writerPc>>
    /\ UNCHANGED <<chanClosed, pumpPc, wsAlive, wsOut, wsEnded>>
    /\ UNCHANGED peerVars
    /\ UNCHANGED <<regVars, portVars, gaugeVars, callVars, connVars>>

\* ------------------------------------------------- registry operations
OthersUnchangedByStore ==
    UNCHANGED <<peerVars, remoteVars, chanVars, inVars, portVars,
                gaugeVars, callVars, connVars>>

\* Client::disable marks the client and, through it, every stream of the
\* registry ss the client owns.
Client_disable(ss, client_id) ==
    [s \in DOMAIN ss |->
        IF ss[s].client_id = client_id
        THEN [ss[s] EXCEPT !.disabled = TRUE]
        ELSE ss[s]]

\* A disable_client that does nothing.
disable_client_skipped(cs, ss, client_id) == [clients |-> cs, streams |-> ss]

\* Store::disable_client on the registries cs (clients) and ss (streams).
disable_client_in(cs, ss, client_id) ==
    IF client_id \in DOMAIN cs
    THEN [clients |-> disable_entry(cs, client_id),
          streams |-> Client_disable(ss, client_id)]
    ELSE [clients |-> cs, streams |-> ss]

\* Store::disable_client
Store_disable_client(client_id) == disable_client_in(clients, streams, client_id)

\* A sweep that keeps every entry.
retain_all(m) == m

\* A sweep that drops every entry.
retain_none(m) == MapRemove(m, DOMAIN m)

\* map.retain(|_, v| !v.disabled())
retain_enabled(m) == MapRemove(m, {k \in DOMAIN m : m[k].disabled})

\* Store::add_client, first statement: the client enters `clients`. Its
\* port is one no live session holds.
AddClientInsert(c, port) ==
    /\ clientPc[c] = "new"
    /\ \A d \in DOMAIN clients :
          clients[d].remote_port = port => clients[d].disabled
    /\ clients' = MapPut(clients, c, [remote_port |-> port, disabled |-> FALSE])
    /\ clientPc' = [clientPc EXCEPT ![c] = "inserted"]
    /\ UNCHANGED <<streams, addrs_map, port_map, minted>>
    /\ UNCHANGED <<sweepPc, findPc, findAddr, findSid, findRes>>
    /\ OthersUnchangedByStore

\* The rest of Store::add_client: the port enters port_map, then the
\* number of registered clients is read and published.
AddClientIndex(c) ==
    /\ clientPc[c] = "inserted"
    /\ port_map' = MapPut(port_map, clients[c].remote_port, c)
    /\ clientPc' = [clientPc EXCEPT ![c] = "active"]
    /\ gaugeClients' = Cardinality(DOMAIN clients)
    /\ UNCHANGED <<gaugeStreams, gaugeConnections>>
    /\ UNCHANGED <<streams, clients, addrs_map, minted>>
    /\ UNCHANGED <<sweepPc, findPc, findAddr, findSid, findRes>>
    /\ UNCHANGED <<peerVars, remoteVars, chanVars, inVars, portVars, callVars, connVars>>

\* The session of client c ends: Store::disable_client.
DisableClient(c) ==
    /\ clientPc[c] = "active"
    /\ clients' = Store_disable_client(c).clients
    /\ streams' = Store_disable_client(c).streams
    /\ UNCHANGED <<addrs_map, port_map, minted>>
    /\ UNCHANGED regVars
    /\ OthersUnchangedByStore

\* A stream is given up (Refused, or a socket error): Store::disable_remote.
DisableRemote(s) ==
    /\ s \in minted
    /\ peerPc[PeerOf(s)] \notin {"inserted"}
    /\ streams' = Store_disable_remote(s)
    /\ UNCHANGED <<clients, addrs_map, port_map, minted>>
    /\ UNCHANGED regVars
    /\ OthersUnchangedByStore

\* Store::cleanup, first statement: disabled streams leave `streams`.
CleanupStreams ==
    /\ sweepPc = "idle"
    /\ streams' = retain_enabled(streams)
    /\ sweepPc' = "streams_swept"
    /\ UNCHANGED <<clients, addrs_map, port_map, minted>>
    /\ UNCHANGED <<clientPc, findPc, findAddr, findSid, findRes>>
    /\ OthersUnchangedByStore

\* Store::cleanup, second statement: disabled clients leave `clients`.
CleanupClients ==
    /\ sweepPc = "streams_swept"
    /\ clients' = retain_enabled(clients)
    /\ sweepPc' = "idle"
    /\ UNCHANGED <<streams, addrs_map, port_map, minted>>
    /\ UNCHANGED <<clientPc, findPc, findAddr, findSid, findRes>>
    /\ OthersUnchangedByStore

\* Store::find_stream_id_by_addr, the read of addrs_map: a miss returns
\* None (0) at once.
FindLookup(addr) ==
    /\ findPc = "idle"
    /\ findAddr' = addr
    /\ IF addr \in DOMAIN addrs_map
       THEN /\ findSid' = addrs_map[addr]
            /\ findPc' = "looked_up"
            /\ UNCHANGED findRes
       ELSE /\ findRes' = 0
            /\ findSid' = 0
            /\ findPc' = "returned"
    /\ UNCHANGED <<clientPc, sweepPc>>
    /\ UNCHANGED storeVars
    /\ OthersUnchangedByStore

\* A check that takes any registered stream, disabled or not.
find_check_any(stream_id) ==
    IF stream_id \in DOMAIN streams THEN stream_id ELSE 0

\* Store::find_stream_id_by_addr under the read lock of `streams`: the
\* stream's id if it is registered and not disabled, None (0) otherwise.
find_check(stream_id) ==
    IF stream_id \in DOMAIN streams /\ ~streams[stream_id].disabled
    THEN stream_id ELSE 0

\* Store::find_stream_id_by_addr, the read of `streams`.
FindCheck ==
    /\ findPc = "looked_up"
    /\ findRes' = find_check(findSid)
    /\ findPc' = "returned"
    /\ UNCHANGED <<clientPc, sweepPc, findAddr, findSid>>
    /\ UNCHANGED storeVars
    /\ OthersUnchangedByStore

\* The caller of find_stream_id_by_addr has its answer.
FindReturn ==
    /\ findPc = "returned"
    /\ findPc' = "idle"
    /\ UNCHANGED <<clientPc, sweepPc, findAddr, findSid, findRes>>
    /\ UNCHANGED storeVars
    /\ OthersUnchangedByStore

\* ------------------------------------------------------- initial parts
InitReg ==
    /\ sweepPc = "idle"
    /\ findPc = "idle"
    /\ findAddr = 0
    /\ findSid = 0
    /\ findRes = 0

InitPort ==
    /\ free = Ports
    /\ allocLock = {}
    /\ sessPc = [t \in Sessions |-> "idle"]
    /\ sessArg = [t \in Sessions |-> 0]
    /\ sessRes = [t \in Sessions |-> "none"]
    /\ leased = [q \in Ports |-> 0]

\* The allocator once the handshake of the first session has taken port 1.
InitPortLeased ==
    /\ free = Ports \ {1}
    /\ allocLock = {}
    /\ sessPc = [t \in Sessions |-> "idle"]
    /\ sessArg = [t \in Sessions |-> 0]
    /\ sessRes = [t \in Sessions |-> "none"]
    /\ leased = [q \in Ports |-> IF q = 1 THEN 1 ELSE 0]

\* No send was made from outside, the session runs, and Connections::new().
InitRest ==
    /\ gaugeConnections = 0
    /\ lastSend = [op |-> "none", id |-> 0, result |-> "none"]
    /\ termPc = "run"
    /\ termRes = "none"
    /\ streamsLock = {}
    /\ sendCalls = [t \in SendTasks |-> NoSend]
    /\ connClients = EmptyMap
    /\ connHosts = EmptyMap
    /\ connClosed = {}
    /\ connStuck = {}
    /\ connCalls = [t \in ConnTasks |-> NoCall]

\* -------------------------------------------------------------- ports
\* The port range and one port outside it.
AnyPort == 1..(MaxPorts + 1)

\* A lock that lets every caller in.
mutex_lock_unguarded(holders) == TRUE

\* self.alloc.lock().await: granted when no session is inside.
mutex_lock(holders) == holders = {}

\* PortAllocator::release_port: a port of the range that is not free goes
\* back to the free set; anything else is NotAllocated.
PortAllocator_release_port(port) ==
    IF port \in Ports \ free
    THEN [result |-> "Ok", free |-> free \cup {port}]
    ELSE [result |-> "NotAllocated", free |-> free]

\* A release that drops the allocator's answer.
Store_release_port_unchecked(port) ==
    [result |-> "Ok", free |-> PortAllocator_release_port(port).free]

\* Store::release_port, inside the mutex.
Store_release_port(port) == PortAllocator_release_port(port)

OthersUnchangedByPort ==
    UNCHANGED <<storeVars, peerVars, remoteVars, chanVars, inVars, regVars,
                gaugeVars, callVars, connVars>>

\* Store::allocate_port: the session takes the mutex.
AllocateLock(t) ==
    /\ sessPc[t] = "idle"
    /\ mutex_lock(allocLock)
    /\ allocLock' = allocLock \cup {t}
    /\ sessPc' = [sessPc EXCEPT ![t] = "alloc_locked"]
    /\ UNCHANGED <<free, sessArg, sessRes, leased>>
    /\ OthersUnchangedByPort

\* PortAllocator::allocate_port: draw a candidate from the free set, or
\* fail when nothing is free (the mutex is released on return).
AllocatePick(t) ==
    /\ sessPc[t] = "alloc_locked"
    /\ IF free = {}
       THEN /\ sessRes' = [sessRes EXCEPT ![t] = "Exhausted"]
            /\ sessPc' = [sessPc EXCEPT ![t] = "idle"]
            /\ allocLock' = allocLock \ {t}
            /\ UNCHANGED sessArg
       ELSE /\ \E port \in free : sessArg' = [sessArg EXCEPT ![t] = port]
            /\ sessPc' = [sessPc EXCEPT ![t] = "alloc_picked"]
            /\ UNCHANGED <<sessRes, allocLock>>
    /\ UNCHANGED <<free, leased>>
    /\ OthersUnchangedByPort

\* PortAllocator::allocate_port: the candidate leaves the free set and is
\* returned; the mutex is released.
AllocateTake(t) ==
    /\ sessPc[t] = "alloc_picked"
    /\ free' = free \ {sessArg[t]}
    /\ leased' = [leased EXCEPT ![sessArg[t]] = @ + 1]
    /\ sessRes' = [sessRes EXCEPT ![t] = "Allocated"]
    /\ sessPc' = [sessPc EXCEPT ![t] = "idle"]
    /\ allocLock' = allocLock \ {t}
    /\ UNCHANGED sessArg
    /\ OthersUnchangedByPort

\* Store::release_port(port): the session takes the mutex.
ReleaseLock(t, port) ==
    /\ sessPc[t] = "idle"
    /\ mutex_lock(allocLock)
    /\ allocLock' = allocLock \cup {t}
    /\ sessArg' = [sessArg EXCEPT ![t] = port]
    /\ sessPc' = [sessPc EXCEPT ![t] = "release_locked"]
    /\ UNCHANGED <<free, sessRes, leased>>
    /\ OthersUnchangedByPort

\* Store::release_port: the allocator's answer is returned and the mutex
\* released.
ReleaseRun(t) ==
    /\ sessPc[t] = "release_locked"
    /\ LET r == Store_release_port(sessArg[t]) IN
        /\ free' = r.free
        /\ sessRes' = [sessRes EXCEPT ![t] = r.result]
        /\ leased' = IF r.result = "Ok" /\ sessArg[t] \in Ports
                     THEN [leased EXCEPT ![sessArg[t]] = 0]
                     ELSE leased
    /\ sessPc' = [sessPc EXCEPT ![t] = "idle"]
    /\ allocLock' = allocLock \ {t}
    /\ UNCHANGED sessArg
    /\ OthersUnchangedByPort

\* ------------------------------------------------------------ SpecPort
\* A Store fresh from Store::new(range): every port of the range is free.
InitStoreNew ==
    /\ streams = EmptyMap
    /\ clients = EmptyMap
    /\ addrs_map = EmptyMap
    /\ port_map = EmptyMap
    /\ minted = {}
    /\ clientPc = [c \in ClientIds |-> "new"]
    /\ gaugeClients = 0
    /\ gaugeStreams = 0
    /\ InitReg
    /\ InitPort
    /\ InitRest

InitIdleTunnel ==
    /\ peerPc = [p \in Peers |-> "idle"]
    /\ peerSid = [p \in Peers |-> 0]
    /\ peerAddr = [p \in Peers |-> 0]
    /\ peerWritten = [p \in Peers |-> <<>>]
    /\ peerClosed = [p \in Peers |-> FALSE]
    /\ readPos = [p \in Peers |-> 0]
    /\ readerPc = [p \in Peers |-> "run"]
    /\ peerRead = [p \in Peers |-> <<>>]
    /\ remoteQ = [s \in StreamIds |-> <<>>]
    /\ writerPc = [s \in StreamIds |-> "run"]
    /\ txq = <<>>
    /\ enq = <<>>
    /\ chanClosed = FALSE
    /\ pumpPc = "run"
    /\ wsAlive = TRUE
    /\ wsOut = <<>>
    /\ wsEnded = FALSE
    /\ wsIn = <<>>
    /\ inPos = 0

InitStore == InitStoreNew /\ InitIdleTunnel

NextPort ==
    \/ \E t \in Sessions : AllocateLock(t)
    \/ \E t \in Sessions : AllocatePick(t)
    \/ \E t \in Sessions : AllocateTake(t)
    \/ \E t \in Sessions, port \in AnyPort : ReleaseLock(t, port)
    \/ \E t \in Sessions : ReleaseRun(t)

SpecPort == InitStore /\ [][NextPort]_vars

\* ----------------------------------------------------------- SpecStore
NextStore ==
    \/ \E c \in ClientIds, port \in Ports : AddClientInsert(c, port)
    \/ \E c \in ClientIds : AddClientIndex(c)
    \/ \E p \in Peers : PeerConnect(p, p)
    \/ \E p \in Peers : AcceptInsert(p)
    \/ \E p \in Peers : AcceptIndex(p)
    \/ \E c \in ClientIds : DisableClient(c)
    \/ \E s \in StreamIds : DisableRemote(s)
    \/ CleanupStreams
    \/ CleanupClients
    \/ \E addr \in Addrs : FindLookup(addr)
    \/ FindCheck
    \/ FindReturn

SpecStore == InitStore /\ [][NextStore]_vars

\* ---------------------------------------------------------- SpecTunnel
\* One client has completed the handshake: port 1 was allocated for it,
\* add_client registered it and published the gauge; its forwarding task
\* runs; no external peer has connected yet.
InitTunnel ==
    /\ streams = EmptyMap
    /\ clients = [c \in {1} |-> [remote_port |-> 1, disabled |-> FALSE]]
    /\ addrs_map = EmptyMap
    /\ port_map = [q \in {1} |-> 1]
    /\ minted = {}
    /\ InitIdleTunnel
    /\ InitReg
    /\ clientPc = [c \in ClientIds |-> IF c = 1 THEN "active" ELSE "new"]
    /\ gaugeClients = 1
    /\ gaugeStreams = 0
    /\ InitPortLeased
    /\ InitRest

NextTunnel ==
    \/ \E p \in Peers : PeerConnect(p, p)
    \/ \E p \in Peers : PeerWrite(p)
    \/ \E p \in Peers : PeerClose(p)
    \/ \E p \in Peers : AcceptInsert(p)
    \/ \E p \in Peers : AcceptIndex(p)
    \/ \E p \in Peers : AcceptInit(p)
    \/ \E p \in Peers : ReaderData(p)
    \/ \E p \in Peers : ReaderEof(p)
    \/ PumpForward
    \/ PumpAbort
    \/ PumpEnd
    \/ WsDisconnect
    \/ close_channel

SpecTunnel == InitTunnel /\ [][NextTunnel]_vars

\* ---------------------------------------------------------- SpecDuplex
\* The session of InitTunnel once every peer has connected and been
\* accepted in turn and the client has received each Init: the streams are
\* open in both directions.
InitDuplex ==
    /\ streams = [s \in Peers |-> [client_id |-> 1, disabled |-> FALSE]]
    /\ clients = [c \in {1} |-> [remote_port |-> 1, disabled |-> FALSE]]
    /\ addrs_map = [p \in Peers |-> p]
    /\ port_map = [q \in {1} |-> 1]
    /\ minted = Peers
    /\ peerPc = [p \in Peers |-> "open"]
    /\ peerSid = [p \in Peers |-> p]
    /\ peerAddr = [p \in Peers |-> p]
    /\ peerWritten = [p \in Peers |-> <<>>]
    /\ peerClosed = [p \in Peers |-> FALSE]
    /\ readPos = [p \in Peers |-> 0]
    /\ readerPc = [p \in Peers |-> "run"]
    /\ peerRead = [p \in Peers |-> <<>>]
    /\ remoteQ = [s \in StreamIds |-> <<>>]
    /\ writerPc = [s \in StreamIds |-> "run"]
    /\ txq = <<>>
    /\ enq = [i \in Peers |-> InitP(i)]
    /\ chanClosed = FALSE
    /\ pumpPc = "run"
    /\ wsAlive = TRUE
    /\ wsOut = [i \in Peers |-> to_vec(InitP(i))]
    /\ wsEnded = FALSE
    /\ wsIn = <<>>
    /\ inPos = 0
    /\ InitReg
    /\ clientPc = [c \in ClientIds |-> IF c = 1 THEN "active" ELSE "new"]
    /\ gaugeClients = 1
    /\ gaugeStreams = MaxPeers
    /\ InitPortLeased
    /\ InitRest

NextDuplex ==
    \/ \E p \in Peers : PeerWrite(p)
    \/ \E p \in Peers : ReaderData(p)
    \/ PumpForward
    \/ \E s \in StreamIds : ClientSendData(s)
    \/ \E s \in StreamIds : ClientSendEnd(s)
    \/ \E s \in StreamIds : ClientSendRefused(s)
    \/ Inbound
    \/ \E s \in StreamIds : Writer(s)
    \/ WsDisconnect
    \/ PumpAbort

SpecDuplex == InitDuplex /\ [][NextDuplex]_vars

\* -------------------------------------------------------- SpecRegistry
\* Client::send_to_client: a disabled client accepts nothing; otherwise the
\* packet goes on the client's outbound channel.
Client_send_to_client(client_id, packet) ==
    IF clients[client_id].disabled
    THEN [result |-> "ClientDisabled", txq |-> txq, enq |-> enq]
    ELSE IF SendOk
    THEN [result |-> "Ok", txq |-> Append(txq, packet), enq |-> Append(enq, packet)]
    ELSE [result |-> "SendError", txq |-> txq, enq |-> enq]

\* A send that skips the lookup and enqueues whatever the id.
Store_send_to_client_unchecked(client_id, packet) ==
    [result |-> "Ok", txq |-> Append(txq, packet), enq |-> Append(enq, packet)]

\* Store::send_to_client
Store_send_to_client(client_id, packet) ==
    IF client_id \in DOMAIN clients
    THEN Client_send_to_client(client_id, packet)
    ELSE [result |-> "ClientNotAvailable", txq |-> txq, enq |-> enq]

\* Messages waiting in the channels of the registry.
Waiting == Len(txq) + Sum([s \in StreamIds |-> Len(remoteQ[s])], StreamIds)

\* Some task calls Store::send_to_remote(stream_id, message), with any id.
SendToRemote(stream_id, message) ==
    LET r == Store_send_to_remote(stream_id, message) IN
    /\ r.result = "Ok" => Waiting < MaxSends
    /\ remoteQ' = r.remoteQ
    /\ lastSend' = [op |-> "send_to_remote", id |-> stream_id, result |-> r.result]
    /\ UNCHANGED <<peerRead, writerPc, termPc, termRes, streamsLock, sendCalls>>
    /\ UNCHANGED <<storeVars, peerVars, chanVars, inVars>>
    /\ UNCHANGED <<regVars, portVars, gaugeVars, connVars>>

\* Some task calls Store::send_to_client(client_id, packet), with any id.
SendToClient(client_id, packet) ==
    LET r == Store_send_to_client(client_id, packet) IN
    /\ r.result = "Ok" => Waiting < MaxSends
    /\ txq' = r.txq
    /\ enq' = r.enq
    /\ lastSend' = [op |-> "send_to_client", id |-> client_id, result |-> r.result]
    /\ UNCHANGED <<chanClosed, pumpPc, wsAlive, wsOut, wsEnded>>
    /\ UNCHANGED <<termPc, termRes, streamsLock, sendCalls>>
    /\ UNCHANGED <<storeVars, peerVars, remoteVars, inVars>>
    /\ UNCHANGED <<regVars, portVars, gaugeVars, connVars>>

\* The registry of one session: connections arrive (a later one may come
\* from the address of a stream that is gone), streams and the client are
\* disabled, the sweep runs and addresses are looked up.
NextRegistry ==
    \/ \E p \in Peers : \E addr \in 1..p : PeerConnect(p, addr)
    \/ \E p \in Peers : AcceptInsert(p)
    \/ \E p \in Peers : AcceptIndex(p)
    \/ \E c \in ClientIds : DisableClient(c)
    \/ \E s \in StreamIds : DisableRemote(s)
    \/ CleanupStreams
    \/ CleanupClients
    \/ \E addr \in Addrs : FindLookup(addr)
    \/ FindCheck
    \/ FindReturn

SpecRegistry == InitTunnel /\ [][NextRegistry]_vars

\* ------------------------------------------------------------ SpecSend
\* The registry of one session while tasks send to streams and clients by
\* id, registered or not, disabled or not.
NextSend ==
    \/ \E p \in Peers : PeerConnect(p, p)
    \/ \E p \in Peers : AcceptInsert(p)
    \/ \E p \in Peers : AcceptIndex(p)
    \/ \E c \in ClientIds : DisableClient(c)
    \/ \E s \in StreamIds : DisableRemote(s)
    \/ CleanupStreams
    \/ CleanupClients
    \/ \E s \in StreamIds :
          SendToRemote(s, Bytes(<<ClientByte(s, Len(remoteQ[s]) + 1)>>))
    \/ \E c \in ClientIds : SendToClient(c, End(1))

SpecSend == InitTunnel /\ [][NextSend]_vars

\* --------------------------------------------------------- SpecRefused
\* The open streams of SpecDuplex when the tunnel client refuses streams
\* and the sweep runs.
NextRefused ==
    \/ \E s \in StreamIds : ClientSendRefused(s)
    \/ \E s \in StreamIds : ClientSendData(s)
    \/ Inbound
    \/ \E s \in StreamIds : Writer(s)
    \/ CleanupStreams
    \/ CleanupClients

SpecRefused == InitDuplex /\ [][NextRefused]_vars

\* ----------------------------------------------------------- SpecClose
\* The end of the session of client 1: once a task of the session has
\* exited, the session cancels the others, disables the client, releases
\* its port and sweeps the registry.
SessionClient == 1

\* The session closes when its outbound pump has exited.
SessionClosed == pumpPc # "run"

OthersUnchangedByTerm ==
    UNCHANGED <<peerVars, remoteVars, chanVars, inVars, regVars, gaugeVars,
                lastSend, streamsLock, sendCalls, connVars>>

\* Termination: the client is disabled, and with it every stream it owns.
TermDisable ==
    /\ termPc = "run"
    /\ SessionClosed
    /\ clients' = Store_disable_client(SessionClient).clients
    /\ streams' = Store_disable_client(SessionClient).streams
    /\ termPc' = "disabled"
    /\ UNCHANGED <<addrs_map, port_map, minted, termRes>>
    /\ UNCHANGED portVars
    /\ OthersUnchangedByTerm

\* Termination, Store::release_port: the mutex is taken.
TermReleaseLock ==
    /\ termPc = "disabled"
    /\ mutex_lock(allocLock)
    /\ allocLock' = allocLock \cup {SessionClient}
    /\ termPc' = "release_locked"
    /\ UNCHANGED <<free, sessPc, sessArg, sessRes, leased, termRes>>
    /\ UNCHANGED storeVars
    /\ OthersUnchangedByTerm

\* Termination, Store::release_port: the client's port goes back and the
\* mutex is released.
TermReleaseRun ==
    /\ termPc = "release_locked"
    /\ LET port == clients[SessionClient].remote_port
           r == Store_release_port(port)
       IN  /\ free' = r.free
           /\ termRes' = r.result
           /\ leased' = IF r.result = "Ok" THEN [leased EXCEPT ![port] = @ - 1]
                        ELSE leased
    /\ allocLock' = allocLock \ {SessionClient}
    /\ termPc' = "released"
    /\ UNCHANGED <<sessPc, sessArg, sessRes>>
    /\ UNCHANGED storeVars
    /\ OthersUnchangedByTerm

\* Termination, Store::cleanup, first statement.
TermSweepStreams ==
    /\ termPc = "released"
    /\ streams' = retain_enabled(streams)
    /\ termPc' = "streams_swept"
    /\ UNCHANGED <<clients, addrs_map, port_map, minted, termRes>>
    /\ UNCHANGED portVars
    /\ OthersUnchangedByTerm

\* Termination, Store::cleanup, second statement.
TermSweepClients ==
    /\ termPc = "streams_swept"
    /\ clients' = retain_enabled(clients)
    /\ termPc' = "done"
    /\ UNCHANGED <<streams, addrs_map, port_map, minted, termRes>>
    /\ UNCHANGED portVars
    /\ OthersUnchangedByTerm

Termination ==
    \/ TermDisable
    \/ TermReleaseLock
    \/ TermReleaseRun
    \/ TermSweepStreams
    \/ TermSweepClients

\* The listener is a task of the session: cancelled by the termination, it
\* takes no further step.
NextClose ==
    \/ \E p \in Peers : termPc = "run" /\ PeerConnect(p, p)
    \/ \E p \in Peers : termPc = "run" /\ AcceptInsert(p)
    \/ \E p \in Peers : termPc = "run" /\ AcceptIndex(p)
    \/ \E p \in Peers : termPc = "run" /\ AcceptInit(p)
    \/ PumpForward
    \/ PumpAbort
    \/ PumpEnd
    \/ WsDisconnect
    \/ close_channel
    \/ TermDisable
    \/ TermReleaseLock
    \/ TermReleaseRun
    \/ TermSweepStreams
    \/ TermSweepClients

\* The termination is a task that runs to its end; nothing forces the
\* session to close.
SpecClose == InitTunnel /\ [][NextClose]_vars /\ WF_vars(Termination)

\* ---------------------------------------------------- SpecBackpressure
\* tokio's RwLock::write().await: granted when nobody holds the lock.
rwlock_write(holders) == holders = {}

\* The stream's inbound channel takes a message while it has room; a
\* sender finding it full is suspended until the writer has taken one.
channel_has_room(stream_id) == Len(remoteQ[stream_id]) < ChanCap

\* A send_to_remote call that holds the lock is suspended in
\* stream.send_to_remote(..).await: its stream is registered and enabled
\* and the stream's channel is full.
Suspended(t) ==
    /\ sendCalls[t].pc = "locked"
    /\ sendCalls[t].stream_id \in DOMAIN streams
    /\ ~streams[sendCalls[t].stream_id].disabled
    /\ ~channel_has_room(sendCalls[t].stream_id)

\* Bytes a stream has been sent so far.
SentTo(s) ==
    IF s \in DOMAIN streams
    THEN Len(peerRead[PeerOf(s)]) + Len(remoteQ[s])
    ELSE 0

\* Store::send_to_remote is called: self.streams.write().await. The guard
\* is a temporary of the match's scrutinee and lives to the end of the
\* match, the await of stream.send_to_remote included.
SendLock(t, stream_id) ==
    /\ sendCalls[t] = NoSend
    /\ SentTo(stream_id) < MaxEvents
    /\ rwlock_write(streamsLock)
    /\ streamsLock' = streamsLock \cup {t}
    /\ sendCalls' = [sendCalls EXCEPT ![t] =
          [stream_id |-> stream_id,
           message |-> Bytes(<<ClientByte(stream_id, SentTo(stream_id) + 1)>>),
           pc |-> "locked"]]
    /\ UNCHANGED <<lastSend, termPc, termRes>>
    /\ UNCHANGED <<storeVars, peerVars, remoteVars, chanVars, inVars>>
    /\ UNCHANGED <<regVars, portVars, gaugeVars, connVars>>

\* Store::send_to_remote under the lock: the lookup, then the send to the
\* stream once its channel has room; the lock is released on return.
SendRun(t) ==
    /\ sendCalls[t].pc = "locked"
    /\ ~Suspended(t)
    /\ LET r == Store_send_to_remote(sendCalls[t].stream_id, sendCalls[t].message) IN
        /\ remoteQ' = r.remoteQ
        /\ lastSend' = [op |-> "send_to_remote", id |-> sendCalls[t].stream_id,
                        result |-> r.result]
    /\ streamsLock' = streamsLock \ {t}
    /\ sendCalls' = [sendCalls EXCEPT ![t] = NoSend]
    /\ UNCHANGED <<peerRead, writerPc, termPc, termRes>>
    /\ UNCHANGED <<storeVars, peerVars, chanVars, inVars>>
    /\ UNCHANGED <<regVars, portVars, gaugeVars, connVars>>

\* Streams that are open, tasks sending to them by id, writers that may
\* fall behind, and the operations that take the lock of `streams`: each
\* waits until the lock is free.
NextBackpressure ==
    \/ \E t \in SendTasks : \E s \in StreamIds : SendLock(t, s)
    \/ \E t \in SendTasks : SendRun(t)
    \/ \E s \in StreamIds : Writer(s)
    \/ \E s \in StreamIds : rwlock_write(streamsLock) /\ DisableRemote(s)
    \/ rwlock_write(streamsLock) /\ CleanupStreams
    \/ CleanupClients
    \/ \E addr \in Addrs : FindLookup(addr)
    \/ rwlock_write(streamsLock) /\ FindCheck
    \/ FindReturn

SpecBackpressure == InitDuplex /\ [][NextBackpressure]_vars

\* ----------------------------------------------------- SpecConnections
\* Clients that are built and handed to a Connections.
MaxConns == 3
ConnIds == 1..MaxConns

\* The ConnectedClient values a test builds: client c with a host of its own.
ConnectedClient(c) == [id |-> c, host |-> c]
Built == {ConnectedClient(c) : c \in ConnIds}

\* Option::None for a lookup in Connections.
None == [id |-> 0, host |-> 0]

\* The state of a Connections and of the channels of the clients it was
\* given, as one value.
Conn ==
    [clients |-> connClients, hosts |-> connHosts,
     closed |-> connClosed, gauge |-> gaugeConnections]

\* client.tx.close_channel()
tx_close_channel(cn, client) == [cn EXCEPT !.closed = @ \cup {client.id}]

\* self.clients.insert(client.id, client.clone())
clients_insert(cn, client) == [cn EXCEPT !.clients = MapPut(@, client.id, client)]

\* self.hosts.insert(client.host.clone(), client)
hosts_insert(cn, client) == [cn EXCEPT !.hosts = MapPut(@, client.host, client)]

\* A removal that leaves the hosts index as it is.
hosts_remove_skipped(cn, host) == cn

\* self.hosts.remove(&client.host)
hosts_remove(cn, host) == [cn EXCEPT !.hosts = MapRemove(@, {host})]

\* self.clients.remove(&client.id)
clients_remove(cn, id) == [cn EXCEPT !.clients = MapRemove(@, {id})]

\* A gauge that counts the calls instead of the entries.
gauge_counting_calls(cn) == [cn EXCEPT !.gauge = @ + 1]

\* gauge!("magic_tunnel_server.control.connections", self.clients.len())
gauge_connections(cn) == [cn EXCEPT !.gauge = Cardinality(DOMAIN cn.clients)]

\* Connections::add
Connections_add(cn, client) ==
    gauge_connections(hosts_insert(clients_insert(cn, client), client))

\* Connections::remove
Connections_remove(cn, client) ==
    gauge_connections(
        clients_remove(hosts_remove(tx_close_channel(cn, client), client.host),
                       client.id))

\* Connections::clear
Connections_clear(cn) == [cn EXCEPT !.clients = EmptyMap, !.hosts = EmptyMap]

\* Connections::get
Connections_get(cn, client_id) ==
    IF client_id \in DOMAIN cn.clients THEN cn.clients[client_id] ELSE None

\* Connections::find_by_host
Connections_find_by_host(cn, host) ==
    IF host \in DOMAIN cn.hosts THEN cn.hosts[host] ELSE None

\* Connections::len_clients and Connections::len_hosts
Connections_len_clients(cn) == Cardinality(DOMAIN cn.clients)
Connections_len_hosts(cn) == Cardinality(DOMAIN cn.hosts)

\* The Connections becomes cn.
ConnBecomes(cn) ==
    /\ connClients' = cn.clients
    /\ connHosts' = cn.hosts
    /\ connClosed' = cn.closed
    /\ gaugeConnections' = cn.gauge

OthersUnchangedByConn ==
    UNCHANGED <<storeVars, peerVars, remoteVars, chanVars, inVars, regVars,
                portVars, callVars, gaugeClients, gaugeStreams>>

\* A call of Connections::add. (A call for a client whose entry a stuck
\* remove_by_id holds waits for the entry's shard and changes nothing.)
ConnAdd(client) ==
    /\ client.id \notin connStuck
    /\ ConnBecomes(Connections_add(Conn, client))
    /\ UNCHANGED <<connStuck, connCalls>>
    /\ OthersUnchangedByConn

\* A call of Connections::remove. (For a client whose entry a stuck
\* remove_by_id holds, it closes the channel, drops the host and then waits
\* for the entry's shard for ever.)
ConnRemove(client) ==
    /\ IF client.id \in connStuck
       THEN ConnBecomes(hosts_remove(tx_close_channel(Conn, client), client.host))
       ELSE ConnBecomes(Connections_remove(Conn, client))
    /\ UNCHANGED <<connStuck, connCalls>>
    /\ OthersUnchangedByConn

\* DashMap grants the write lock of an entry's shard when no reference
\* into that shard is alive.
shard_write_lock(refs, client_id) == client_id \notin refs

\* Connections::remove_by_id on the Connections cn, with refs the entries
\* of `clients` that live references point into. An unknown id returns at
\* once. For a registered one the reference `client` taken by
\* self.clients.get lives to the end of the `if let` block: the channel is
\* closed and the host dropped, and self.clients.remove then asks for the
\* write lock of the shard that reference points into; without the lock
\* the call stays there, the client registered and the reference alive.
Connections_remove_by_id(cn, refs, client_id) ==
    IF client_id \notin DOMAIN cn.clients
    THEN [conn |-> cn, refs |-> refs, returned |-> TRUE]
    ELSE LET client == cn.clients[client_id]
             held == refs \cup {client_id}
             before == hosts_remove(tx_close_channel(cn, client), client.host)
         IN  IF shard_write_lock(held, client.id)
             THEN [conn |-> gauge_connections(clients_remove(before, client.id)),
                   refs |-> refs, returned |-> TRUE]
             ELSE [conn |-> before, refs |-> held, returned |-> FALSE]

\* A call of Connections::remove_by_id; connStuck holds the ids whose call
\* did not return, and with them the references those calls keep alive.
ConnRemoveById(client_id) ==
    /\ client_id \notin connStuck
    /\ LET r == Connections_remove_by_id(Conn, connStuck, client_id) IN
        /\ ConnBecomes(r.conn)
        /\ connStuck' = r.refs
    /\ UNCHANGED connCalls
    /\ OthersUnchangedByConn

\* A call of Connections::clear. (While a stuck remove_by_id holds an entry
\* of `clients`, clients.clear() waits at that entry's shard.)
ConnClear ==
    /\ connStuck = {}
    /\ ConnBecomes(Connections_clear(Conn))
    /\ UNCHANGED <<connStuck, connCalls>>
    /\ OthersUnchangedByConn

NextConnections ==
    \/ \E client \in Built : ConnAdd(client)
    \/ \E client \in Built : ConnRemove(client)
    \/ \E client_id \in ConnIds : ConnRemoveById(client_id)
    \/ ConnClear

SpecConnections == InitStore /\ [][NextConnections]_vars

\* ----------------------------------------------------------- SpecHosts
\* Clients of which some share a host string: client c has host
\* (c + 1) \div 2, so clients 1 and 2 share host 1.
HostOf(c) == (c + 1) \div 2
Tenants == {[id |-> c, host |-> HostOf(c)] : c \in ConnIds}

\* Whole add, remove and clear calls on one Connections, in any order.
NextHosts ==
    \/ \E client \in Tenants : ConnAdd(client)
    \/ \E client \in Tenants : ConnRemove(client)
    \/ ConnClear

SpecHosts == InitStore /\ [][NextHosts]_vars

\* ------------------------------------------------------ SpecInterleave
\* Calls of add and remove made by several tasks at once, one map
\* operation at a time. There is one client fewer than there are tasks, so
\* that two calls meet on a client.
Raced == {ConnectedClient(c) : c \in 1..(MaxCalls - 1)}

\* Task t goes on at pc, or returns.
CallAt(t, op, client, pc) ==
    connCalls' = [connCalls EXCEPT ![t] = [op |-> op, client |-> client, pc |-> pc]]
CallReturns(t) == connCalls' = [connCalls EXCEPT ![t] = NoCall]

\* Connections::add(client) is called: self.clients.insert.
AddClientsInsert(t, client) ==
    /\ connCalls[t] = NoCall
    /\ ConnBecomes(clients_insert(Conn, client))
    /\ CallAt(t, "add", client, "hosts_insert")
    /\ UNCHANGED connStuck
    /\ OthersUnchangedByConn

\* Connections::add: self.hosts.insert.
AddHostsInsert(t) ==
    /\ connCalls[t].op = "add"
    /\ connCalls[t].pc = "hosts_insert"
    /\ ConnBecomes(hosts_insert(Conn, connCalls[t].client))
    /\ CallAt(t, "add", connCalls[t].client, "gauge")
    /\ UNCHANGED connStuck
    /\ OthersUnchangedByConn

\* Connections::add: the gauge is published and the call returns.
AddGauge(t) ==
    /\ connCalls[t].op = "add"
    /\ connCalls[t].pc = "gauge"
    /\ ConnBecomes(gauge_connections(Conn))
    /\ CallReturns(t)
    /\ UNCHANGED connStuck
    /\ OthersUnchangedByConn

\* Connections::remove(client) is called: client.tx.close_channel().
RemoveCloseChannel(t, client) ==
    /\ connCalls[t] = NoCall
    /\ ConnBecomes(tx_close_channel(Conn, client))
    /\ CallAt(t, "remove", client, "hosts_remove")
    /\ UNCHANGED connStuck
    /\ OthersUnchangedByConn

\* Connections::remove: self.hosts.remove.
RemoveHostsRemove(t) ==
    /\ connCalls[t].op = "remove"
    /\ connCalls[t].pc = "hosts_remove"
    /\ ConnBecomes(hosts_remove(Conn, connCalls[t].client.host))
    /\ CallAt(t, "remove", connCalls[t].client, "clients_remove")
    /\ UNCHANGED connStuck
    /\ OthersUnchangedByConn

\* Connections::remove: self.clients.remove.
RemoveClientsRemove(t) ==
    /\ connCalls[t].op = "remove"
    /\ connCalls[t].pc = "clients_remove"
    /\ ConnBecomes(clients_remove(Conn, connCalls[t].client.id))
    /\ CallAt(t, "remove", connCalls[t].client, "gauge")
    /\ UNCHANGED connStuck
    /\ OthersUnchangedByConn

\* Connections::remove: the gauge is published and the call returns.
RemoveGauge(t) ==
    /\ connCalls[t].op = "remove"
    /\ connCalls[t].pc = "gauge"
    /\ ConnBecomes(gauge_connections(Conn))
    /\ CallReturns(t)
    /\ UNCHANGED connStuck
    /\ OthersUnchangedByConn

NextInterleave ==
    \/ \E t \in ConnTasks : \E client \in Raced : AddClientsInsert(t, client)
    \/ \E t \in ConnTasks : AddHostsInsert(t)
    \/ \E t \in ConnTasks : AddGauge(t)
    \/ \E t \in ConnTasks : \E client \in Raced : RemoveCloseChannel(t, client)
    \/ \E t \in ConnTasks : RemoveHostsRemove(t)
    \/ \E t \in ConnTasks : RemoveClientsRemove(t)
    \/ \E t \in ConnTasks : RemoveGauge(t)

SpecInterleave == InitStore /\ [][NextInterleave]_vars

\* ------------------------------------------------------------- claims
\* What the tunnel client has read from the websocket, decoded.
Seen == [i \in 1..Len(wsOut) |-> from_slice(wsOut[i])]

\* The websocket messages of a sequence of packets.
Encoded(packets) == [i \in 1..Len(packets) |-> to_vec(packets[i])]

\* The Data payloads of stream s in a sequence of packets, concatenated.
DataOf(packets, s) ==
    Concat([i \in 1..Len(packets) |->
              IF packets[i].type = "Data" /\ packets[i].sid = s
              THEN packets[i].data ELSE <<>>])

\* The payloads waiting in the inbound channel of stream s, concatenated.
Queued(s) == Concat([i \in 1..Len(remoteQ[s]) |-> remoteQ[s][i].data])

\* C1: on the client's control channel every Data(S, ..) and every End(S)
\* comes after Init(S).
C1_InitBeforeData ==
    \A i \in 1..Len(wsOut) :
        Seen[i].type \in {"Data", "End"} =>
            \E j \in 1..(i - 1) : Seen[j] = InitP(Seen[i].sid)

\* C1 witness: the client has seen Init(S) and later Data(S, bytes).
C1_Witness ==
    \E i, j \in 1..Len(wsOut) :
        /\ i < j
        /\ Seen[i].type = "Init"
        /\ Seen[j].type = "Data"
        /\ Seen[j].sid = Seen[i].sid
        /\ Seen[j].data # <<>>

\* C4: the websocket carries the enqueued packets in enqueue order, one
\* binary message each; while the forwarding task runs, what was enqueued
\* is exactly what was written followed by what still waits; and distinct
\* connections have distinct stream ids.
C4_WireOrderIsEnqueueOrder ==
    /\ Len(wsOut) <= Len(enq)
    /\ wsOut = Encoded(SubSeq(enq, 1, Len(wsOut)))
    /\ pumpPc = "run" => enq = Seen \o txq
    /\ \A p, q \in Peers :
        p # q /\ peerSid[p] # 0 /\ peerSid[q] # 0 => peerSid[p] # peerSid[q]

\* C4 witness: Init(S1), Init(S2), Data(S1, ..), Data(S2, ..) on the wire.
C4_Witness ==
    /\ Len(wsOut) = 4
    /\ Seen[1].type = "Init" /\ Seen[2].type = "Init"
    /\ Seen[1].sid # Seen[2].sid
    /\ Seen[3] = Data(Seen[1].sid, Seen[3].data) /\ Seen[3].data # <<>>
    /\ Seen[4] = Data(Seen[2].sid, Seen[4].data) /\ Seen[4].data # <<>>

BytesFor(s) == {ClientByte(s, k) : k \in 1..(MaxEvents * ChunkSize)}

\* C3: a peer reads only bytes the client addressed to its own stream, and
\* once the inbound pump and the writer have caught up on a stream that is
\* registered, not disabled and not ended, its peer has read exactly the
\* bytes sent for it.
C3_RoutedToOwnPeer ==
    \A p \in Peers : peerSid[p] # 0 =>
        LET s == peerSid[p] IN
        /\ \A i \in 1..Len(peerRead[p]) : peerRead[p][i] \in BytesFor(s)
        /\ ( /\ s \in DOMAIN streams
             /\ ~streams[s].disabled
             /\ writerPc[s] = "run"
             /\ remoteQ[s] = <<>>
             /\ inPos = Len(wsIn) ) => peerRead[p] = ClientData(s)

\* C3 witness: Data(S1, m1) and Data(S2, m2) were sent; peer 1 has read
\* m1 and peer 2 has read m2.
C3_Witness ==
    \E p, q \in Peers :
        /\ p # q
        /\ peerSid[p] # 0 /\ peerSid[q] # 0
        /\ peerRead[p] # <<>> /\ peerRead[p] = ClientData(peerSid[p])
        /\ peerRead[q] # <<>> /\ peerRead[q] = ClientData(peerSid[q])

\* C6: no port is held by two allocations at once: a port that
\* allocate_port returned is not returned again before it is released, and
\* it is out of the free set while it is held.
C6_NoPortHandedOutTwice ==
    \A port \in Ports :
        /\ leased[port] <= 1
        /\ leased[port] = 1 => port \notin free

\* C6 witness: two sessions hold different ports at the same time.
C6_Witness ==
    \E t, u \in Sessions :
        /\ t # u
        /\ sessPc[t] = "idle" /\ sessRes[t] = "Allocated"
        /\ sessPc[u] = "idle" /\ sessRes[u] = "Allocated"
        /\ sessArg[t] # sessArg[u]
        /\ leased[sessArg[t]] = 1 /\ leased[sessArg[u]] = 1

\* C7: release_port(p) answers Ok exactly when p is allocated at that
\* moment, and then p is back in the free set; otherwise it answers
\* NotAllocated and the free set is as before.
C7_ReleaseOnlyAllocated ==
    [][\A t \in Sessions :
          sessPc[t] = "release_locked" /\ sessPc'[t] = "idle" =>
              IF sessArg[t] \in Ports /\ leased[sessArg[t]] = 1
              THEN sessRes'[t] = "Ok" /\ free' = free \cup {sessArg[t]}
              ELSE sessRes'[t] = "NotAllocated" /\ free' = free]_vars

\* C7 witness: one release has succeeded and a release of a port that is
\* not allocated has been refused.
C7_Witness ==
    \E t, u \in Sessions :
        /\ sessPc[t] = "idle" /\ sessRes[t] = "Ok"
        /\ sessPc[u] = "idle" /\ sessRes[u] = "NotAllocated"
        /\ sessArg[u] \in free

\* C8: while a disabled client is registered every stream it owns is
\* disabled, and no stream is registered whose owner has left the client
\* registry.
C8_DisableCascades ==
    \A s \in DOMAIN streams :
        /\ streams[s].client_id \in DOMAIN clients
        /\ clients[streams[s].client_id].disabled => streams[s].disabled

\* C9: what the sweep dropped from a registry is in no index: every
\* StreamId the address index holds is registered in `streams`, and every
\* ClientId the port index holds is registered in `clients`.
C9_SweepClearsEveryIndex ==
    /\ \A addr \in DOMAIN addrs_map : addrs_map[addr] \in DOMAIN streams
    /\ \A port \in DOMAIN port_map : port_map[port] \in DOMAIN clients

\* C10: while add_remote (add_client) runs, the stream (client) is in its
\* registry exactly if its address (port) is in the index.
C10_InsertKeepsIndexesTogether ==
    /\ \A p \in Peers : peerPc[p] = "inserted" =>
          (peerSid[p] \in DOMAIN streams
             <=> (peerAddr[p] \in DOMAIN addrs_map
                    /\ addrs_map[peerAddr[p]] = peerSid[p]))
    /\ \A c \in ClientIds : clientPc[c] = "inserted" =>
          (c \in DOMAIN clients <=> c \in Range(port_map))

\* The streams add_remote has finished registering for addr, and the most
\* recent of them (ids are minted in increasing order); 0 when there is none.
RegisteredFor(addr) ==
    {peerSid[p] : p \in {q \in Peers : /\ peerAddr[q] = addr
                                       /\ peerPc[q] \in {"indexed", "open", "dead"}}}

LatestFor(addr) ==
    IF RegisteredFor(addr) = {} THEN 0
    ELSE CHOOSE s \in RegisteredFor(addr) : \A t \in RegisteredFor(addr) : t <= s

\* C11: when find_stream_id_by_addr(addr) returns Some(s), s is the stream
\* most recently registered for addr, it is registered and it is not
\* disabled; when it returns None while the index still names the stream it
\* read, addr has no registered stream or its most recent one is swept or
\* disabled.
C11_FindSkipsDisabledAndSwept ==
    [][findPc # "returned" /\ findPc' = "returned" =>
          /\ findRes' # 0 =>
                /\ findRes' \in DOMAIN streams'
                /\ ~streams'[findRes'].disabled
                /\ findRes' = LatestFor(findAddr')
          /\ findRes' = 0 /\ findSid' = LatestFor(findAddr') =>
                \/ findSid' = 0
                \/ findSid' \notin DOMAIN streams'
                \/ streams'[findSid'].disabled]_vars

\* C11 witness: an address was used by two connections in turn; a lookup
\* has returned the second stream, the first being disabled or swept.
C11_Witness ==
    /\ findPc = "returned"
    /\ findRes # 0
    /\ \E p, q \in Peers :
          /\ p < q
          /\ peerAddr[p] = findAddr /\ peerAddr[q] = findAddr
          /\ peerSid[q] = findRes
          /\ peerSid[p] # 0 /\ peerSid[p] # findRes

\* C12: a send to an id that is not registered fails with
\* StreamNotAvailable / ClientNotAvailable, enqueues nothing on any channel
\* and leaves both registries and their indexes as they were.
C12_MissHasNoEffect ==
    [][lastSend' # lastSend =>
          /\ lastSend'.op = "send_to_remote" /\ lastSend'.id \notin DOMAIN streams =>
                /\ lastSend'.result = "StreamNotAvailable"
                /\ UNCHANGED <<remoteQ, txq, enq, storeVars>>
          /\ lastSend'.op = "send_to_client" /\ lastSend'.id \notin DOMAIN clients =>
                /\ lastSend'.result = "ClientNotAvailable"
                /\ UNCHANGED <<remoteQ, txq, enq, storeVars>>]_vars

\* C12 witness: a send to a stream that was swept has just failed, after
\* sends to registered ids were accepted.
C12_Witness ==
    /\ lastSend.result = "StreamNotAvailable"
    /\ lastSend.id \in minted
    /\ lastSend.id \notin DOMAIN streams
    /\ Waiting > 0

\* C13: a disabled stream or client stays disabled for as long as it is
\* registered; a send addressed to it fails and enqueues nothing; and each
\* statement of the sweep removes what is disabled when it runs.
C13_DisabledIsTerminal ==
    [][/\ \A s \in DOMAIN streams : streams[s].disabled =>
              (s \in DOMAIN streams' => streams'[s].disabled)
       /\ \A c \in DOMAIN clients : clients[c].disabled =>
              (c \in DOMAIN clients' => clients'[c].disabled)
       /\ lastSend' # lastSend =>
              /\ ( /\ lastSend'.op = "send_to_remote"
                   /\ lastSend'.id \in DOMAIN streams
                   /\ streams[lastSend'.id].disabled ) =>
                     /\ lastSend'.result = "StreamDisabled"
                     /\ UNCHANGED <<remoteQ, txq, enq>>
              /\ ( /\ lastSend'.op = "send_to_client"
                   /\ lastSend'.id \in DOMAIN clients
                   /\ clients[lastSend'.id].disabled ) =>
                     /\ lastSend'.result = "ClientDisabled"
                     /\ UNCHANGED <<remoteQ, txq, enq>>
       /\ sweepPc = "idle" /\ sweepPc' = "streams_swept" =>
              \A s \in DOMAIN streams : streams[s].disabled => s \notin DOMAIN streams'
       /\ sweepPc = "streams_swept" /\ sweepPc' = "idle" =>
              \A c \in DOMAIN clients : clients[c].disabled => c \notin DOMAIN clients'
      ]_vars

\* C13 witness: a send to a disabled stream was refused, and the disabled
\* client has been swept while another stream was accepted before.
C13_Witness ==
    /\ lastSend.op = "send_to_remote"
    /\ lastSend.result = "StreamDisabled"
    /\ lastSend.id \in DOMAIN streams
    /\ streams[lastSend.id].disabled
    /\ Waiting > 0

\* C14: disabling twice gives what disabling once gives; disabling an
\* unknown id changes nothing; and disabling removes no entry and touches no
\* other entry than the one named (for a client: and the streams it owns).
C14_DisableIdempotentMarksOnly ==
    /\ \A s \in StreamIds :
          LET once == disable_entry(streams, s) IN
          /\ disable_entry(once, s) = once
          /\ DOMAIN once = DOMAIN streams
          /\ s \notin DOMAIN streams => once = streams
          /\ \A t \in DOMAIN streams : t # s => once[t] = streams[t]
          /\ s \in DOMAIN streams => once[s].disabled
    /\ \A c \in ClientIds :
          LET once == disable_client_in(clients, streams, c) IN
          /\ disable_client_in(once.clients, once.streams, c) = once
          /\ DOMAIN once.clients = DOMAIN clients
          /\ DOMAIN once.streams = DOMAIN streams
          /\ c \notin DOMAIN clients =>
                once = [clients |-> clients, streams |-> streams]
          /\ \A d \in DOMAIN clients : d # c => once.clients[d] = clients[d]
          /\ c \in DOMAIN clients => once.clients[c].disabled

\* C14 witness: disable_remote has marked one stream and left another
\* alone, both still registered and indexed.
C14_Witness ==
    \E s, t \in DOMAIN streams :
        /\ streams[s].disabled
        /\ ~streams[t].disabled
        /\ ~clients[streams[s].client_id].disabled
        /\ s \in Range(addrs_map) /\ t \in Range(addrs_map)

\* Store::get_stream_ids (as a set: the order of the Vec is that of the
\* HashMap's iteration), Store::len_streams and Store::len_clients.
get_stream_ids == DOMAIN streams
len_streams == Cardinality(DOMAIN streams)
len_clients == Cardinality(DOMAIN clients)

\* The streams a sweep of the present registry removes.
DisabledStreams == {s \in DOMAIN streams : streams[s].disabled}

\* C19: handling Refused(S) disables S and removes nothing; the sweep of
\* the stream registry then removes exactly the disabled streams:
\* send_to_remote(S, ..) answers StreamNotAvailable, get_stream_ids has lost
\* S, every other stream is registered and unchanged, and len_streams fell
\* by the number of disabled streams.
C19_RefusedStreamIsSwept ==
    [][/\ ( /\ inPos' = inPos + 1
            /\ from_slice(wsIn[inPos + 1]).type = "Refused"
            /\ from_slice(wsIn[inPos + 1]).sid \in DOMAIN streams ) =>
              /\ get_stream_ids' = get_stream_ids
              /\ streams'[from_slice(wsIn[inPos + 1]).sid].disabled
              /\ \A t \in DOMAIN streams :
                    t # from_slice(wsIn[inPos + 1]).sid => streams'[t] = streams[t]
       /\ sweepPc = "idle" /\ sweepPc' = "streams_swept" =>
              /\ get_stream_ids' = get_stream_ids \ DisabledStreams
              /\ \A s \in DisabledStreams :
                    (Store_send_to_remote(s, Close).result)' = "StreamNotAvailable"
              /\ \A t \in DOMAIN streams \ DisabledStreams :
                    streams'[t] = streams[t] /\ ~streams'[t].disabled
              /\ len_streams' = len_streams - Cardinality(DisabledStreams)
              /\ remoteQ' = remoteQ
      ]_vars

\* C19 witness: the client refused a stream, the pump handled the packet
\* and the sweep ran: the stream is gone, the other one is registered and
\* not disabled.
C19_Witness ==
    \E s \in minted :
        /\ \E i \in 1..inPos : from_slice(wsIn[i]) = Refused(s)
        /\ s \notin get_stream_ids
        /\ Store_send_to_remote(s, Close).result = "StreamNotAvailable"
        /\ len_streams = Cardinality(minted) - 1
        /\ \A t \in get_stream_ids : ~streams[t].disabled
        /\ sweepPc = "idle"

\* No add_client, add_remote or cleanup is in flight.
StoreQuiescent ==
    /\ \A p \in Peers : peerPc[p] # "inserted"
    /\ \A c \in ClientIds : clientPc[c] # "inserted"
    /\ sweepPc = "idle"

\* C20: when no registry operation is in flight, the last value published
\* to each gauge is the number of entries of its registry.
C20_GaugesTrackRegistries ==
    StoreQuiescent =>
        /\ gaugeClients = len_clients
        /\ gaugeStreams = len_streams
        /\ gaugeConnections = Cardinality(DOMAIN connClients)

\* C15: in a Connections no call is stuck in, adding a client twice gives
\* what adding it once gives, with one entry for it in each index; removing
\* it twice, or removing a client that is not there, gives what removing it
\* once gives, with no entry for it in either index.
C15_AddRemoveIdempotent ==
    connStuck = {} =>
        \A client \in Built :
            LET added == Connections_add(Conn, client)
                removed == Connections_remove(Conn, client)
            IN  /\ Connections_add(added, client) = added
                /\ Cardinality({k \in DOMAIN added.clients :
                                   added.clients[k].id = client.id}) = 1
                /\ Cardinality({h \in DOMAIN added.hosts :
                                   added.hosts[h].id = client.id}) = 1
                /\ Connections_remove(removed, client) = removed
                /\ Connections_get(removed, client.id) = None
                /\ Connections_find_by_host(removed, client.host) = None
                /\ Connections_len_clients(removed) = Connections_len_hosts(removed)

\* C15 witness: a client was added, removed and added again next to
\* another one: two entries in each index, and its channel closed.
C15_Witness ==
    /\ connStuck = {}
    /\ Connections_len_clients(Conn) = 2
    /\ Connections_len_hosts(Conn) = 2
    /\ connClosed # {}
    /\ gaugeConnections = 2

\* C16: in a Connections no call is stuck in, a client is found by id and
\* by host exactly while it is registered; a fresh or cleared Connections
\* finds nothing.
C16_FoundWhileRegistered ==
    connStuck = {} =>
        /\ \A client \in Built :
              IF client.id \in DOMAIN connClients
              THEN /\ Connections_get(Conn, client.id).id = client.id
                   /\ Connections_find_by_host(Conn, client.host).id = client.id
              ELSE /\ Connections_get(Conn, client.id) = None
                   /\ Connections_find_by_host(Conn, client.host) = None
        /\ Connections_len_clients(Conn) = 0 => Connections_len_hosts(Conn) = 0

\* C16 witness: of two clients that were added one was removed again: it is
\* found through neither index, the other through both.
C16_Witness ==
    /\ connStuck = {}
    /\ \E c, d \in Built :
          /\ c.id \in connClosed
          /\ Connections_get(Conn, c.id) = None
          /\ Connections_find_by_host(Conn, c.host) = None
          /\ Connections_get(Conn, d.id) = d
          /\ Connections_find_by_host(Conn, d.host) = d

find_stream_id_by_addr(addr) ==
    IF addr \in DOMAIN addrs_map THEN find_check(addrs_map[addr]) ELSE 0

\* The port of the session (port 1, taken at the handshake) is free and no
\* allocation of it is outstanding.
clients_port_free == 1 \in free /\ leased[1] = 0

\* Nothing of the closed session is left: none of its streams is found by
\* id or by address, its client is gone, and its port is back in the free
\* set, released with success.
SessionGone ==
    /\ \A s \in minted :
          /\ s \notin get_stream_ids
          /\ Store_send_to_remote(s, Close).result = "StreamNotAvailable"
    /\ \A addr \in Addrs : find_stream_id_by_addr(addr) = 0
    /\ SessionClient \notin DOMAIN clients
    /\ Store_send_to_client(SessionClient, End(1)).result = "ClientNotAvailable"
    /\ clients_port_free
    /\ termRes = "Ok"

C22_RemoveByIdReturns ==
    \A client_id \in ConnIds :
        /\ client_id \notin connStuck
        /\ Connections_remove_by_id(Conn, connStuck, client_id).returned

\* C23: after any add and remove calls, also for clients that share a
\* host, the indexes agree: a client found by its id is the one found by
\* its host, and the client found by a host is found by its id.
C23_IndexesAgree ==
    /\ \A client \in Tenants :
          Connections_get(Conn, client.id) = client =>
              Connections_find_by_host(Conn, client.host) = client
    /\ \A h \in {client.host : client \in Tenants} :
          LET found == Connections_find_by_host(Conn, h) IN
          found # None => Connections_get(Conn, found.id) = found

\* Every call on the Connections has returned.
ConnQuiescent == \A t \in ConnTasks : connCalls[t] = NoCall

\* C24: once concurrent add and remove calls have all returned, each
\* client is in both indexes or in neither, and the indexes have the same
\* size.
C24_ConcurrentAddRemoveAgree ==
    ConnQuiescent =>
        /\ \A client \in Raced :
              client.id \in DOMAIN connClients <=> client.host \in DOMAIN connHosts
        /\ Connections_len_clients(Conn) = Connections_len_hosts(Conn)

\* C21: a send_to_remote call suspended on the backpressure of its
\* stream's channel does not hold the lock of the stream registry.
C21_NoLockAcrossSuspension ==
    \A t \in SendTasks : Suspended(t) => t \notin streamsLock

====
